---------------------------- MODULE Spec2Model ----------------------------
(***************************************************************************)
(* Orthogonal connector routing of tools/generate-paths.py.                *)
(*                                                                         *)
(* Coordinates are kept in half units (a stored 21 is the float 10.5):     *)
(* every input x, y, w, h, pad and margin is a whole number, so every      *)
(* derived float of the program (cx = x + w/2, (sx + ex)/2, ...) is a      *)
(* whole number of half units and the arithmetic below is exact.           *)
(* _round_svg maps half units to the whole units printed in the path.      *)
(***************************************************************************)
EXTENDS Integers, Sequences, FiniteSets, TLC

VARIABLES
    all_table_rects,  \* id -> Rect: the tables of the diagram
    pad, margin,      \* the parameters of _route_avoiding_tables (half units)
    pc,               \* "start" | "search" | "done"
    sides,            \* <<src_side, dst_side>> as picked by _pick_sides
    edges,            \* node -> sequence of neighbour nodes
    open_heap,        \* entries <<priority, node>> in insertion order
    came_from,        \* node -> predecessor
    g_score,          \* node -> best known cost
    in_open,          \* nodes that have an entry in open_heap
    popped,           \* the entry taken by the last heappop (<<>> before)
    closed,           \* history: nodes popped at least once
    reopened,         \* history: nodes pushed again after they were popped
    path,             \* what _a_star returned: <<>> for None
    points,           \* the point list before serialization
    result,           \* the serialized path: <<cmd, X, Y>> per point
    cc_pc,            \* position of the simplifier run
    cc_points,        \* input of _compress_collinear
    cc_once,          \* its output
    cc_twice          \* the output of a second pass

vars == <<all_table_rects, pad, margin, pc, sides, edges, open_heap, came_from,
          g_score, in_open, popped, closed, reopened, path, points, result,
          cc_pc, cc_points, cc_once, cc_twice>>

routeVars == <<all_table_rects, pad, margin, pc, sides, edges, open_heap,
               came_from, g_score, in_open, popped, closed, reopened, path, points,
               result>>

ccVars == <<cc_pc, cc_points, cc_once, cc_twice>>

----------------------------------------------------------------------------
(* Bounds of the explored inputs *)

\* Tables are placed at x, y in 0..MaxCoord.
MaxCoord == 3
\* The simplifier is run on sequences of 2..MaxLen points of (0..MaxPt) \X (0..MaxPt).
MaxLen == 4
MaxPt == 2

(* The defaults of _route_avoiding_tables, in whole units *)

DefaultPad == 8
DefaultMargin == 14

----------------------------------------------------------------------------
(* Geometry primitives *)

Rect(x, y, w, h) == [x |-> x, y |-> y, w |-> w, h |-> h]

cx(r) == r.x + r.w \div 2
cy(r) == r.y + r.h \div 2
left(r) == r.x
right(r) == r.x + r.w
top(r) == r.y
bottom(r) == r.y + r.h

Abs(v) == IF v < 0 THEN -v ELSE v
Min(a, b) == IF a <= b THEN a ELSE b
Max(a, b) == IF a >= b THEN a ELSE b

\* int(round(v)): Python rounds a half to the even neighbour.
round_svg(v) ==
    IF v % 2 = 0 THEN v \div 2
    ELSE LET k == (v - 1) \div 2 IN IF k % 2 = 0 THEN k ELSE k + 1

anchor(rect, side) ==
    CASE side = "left" -> <<left(rect), cy(rect)>>
      [] side = "right" -> <<right(rect), cy(rect)>>
      [] side = "top" -> <<cx(rect), top(rect)>>
      [] side = "bottom" -> <<cx(rect), bottom(rect)>>

\* As pick_sides, with a tie |dx| = |dy| sent to the vertical branch.
pick_sides_strict(src, dst) ==
    LET dx == cx(dst) - cx(src)
        dy == cy(dst) - cy(src)
    IN  IF Abs(dx) > Abs(dy)
        THEN (IF dx >= 0 THEN <<"right", "left">> ELSE <<"left", "right">>)
        ELSE (IF dy >= 0 THEN <<"bottom", "top">> ELSE <<"top", "bottom">>)

pick_sides(src, dst) ==
    LET dx == cx(dst) - cx(src)
        dy == cy(dst) - cy(src)
    IN  IF Abs(dx) >= Abs(dy)
        THEN (IF dx >= 0 THEN <<"right", "left">> ELSE <<"left", "right">>)
        ELSE (IF dy >= 0 THEN <<"bottom", "top">> ELSE <<"top", "bottom">>)

\* d_parts: "M x y" for the first point, "L x y" for the others.
serialize(pts) ==
    [i \in 1..Len(pts) |->
        <<IF i = 1 THEN "M" ELSE "L", round_svg(pts[i][1]), round_svg(pts[i][2])>>]

\* The list `points` of _orthogonal_path before it is serialized.
orthogonal_points(src, dst, m) ==
    LET ss == pick_sides(src, dst)[1]
        ds == pick_sides(src, dst)[2]
        s == anchor(src, ss)
        e == anchor(dst, ds)
        sx == s[1]
        sy == s[2]
        ex == e[1]
        ey == e[2]
        horiz(sd) == sd \in {"left", "right"}
        vert(sd) == sd \in {"top", "bottom"}
    IN  IF horiz(ss) /\ horiz(ds)
        THEN IF round_svg(sy) = round_svg(ey)
             THEN <<s, e>>
             ELSE LET mid_x == IF ds = "left"
                               THEN Min(ex - m, (sx + ex) \div 2)
                               ELSE Max(ex + m, (sx + ex) \div 2)
                  IN  <<s, <<mid_x, sy>>, <<mid_x, ey>>, e>>
        ELSE IF vert(ss) /\ vert(ds)
        THEN IF round_svg(sx) = round_svg(ex)
             THEN <<s, e>>
             ELSE LET mid_y == IF ds = "top"
                               THEN Min(ey - m, (sy + ey) \div 2)
                               ELSE Max(ey + m, (sy + ey) \div 2)
                  IN  <<s, <<sx, mid_y>>, <<ex, mid_y>>, e>>
        ELSE IF horiz(ss)
        THEN <<s, <<ex, sy>>, e>>
        ELSE <<s, <<sx, ey>>, e>>

orthogonal_path(src, dst, m) == serialize(orthogonal_points(src, dst, m))

expand(rect, p) == Rect(rect.x - p, rect.y - p, rect.w + p * 2, rect.h + p * 2)

\* As segment_clear, with the obstacle loops left out.
segment_clear_unchecked(a, b, obs) == a[1] = b[1] \/ a[2] = b[2]

segment_clear(a, b, obstacles) ==
    LET x1 == a[1]
        y1 == a[2]
        x2 == b[1]
        y2 == b[2]
    IN  IF x1 # x2 /\ y1 # y2 THEN FALSE
        ELSE IF x1 = x2
        THEN \A r \in obstacles :
                ~(left(r) < x1 /\ x1 < right(r))
                \/ ~(Max(Min(y1, y2), top(r)) < Min(Max(y1, y2), bottom(r)))
        ELSE \A r \in obstacles :
                ~(top(r) < y1 /\ y1 < bottom(r))
                \/ ~(Max(Min(x1, x2), left(r)) < Min(Max(x1, x2), right(r)))

manhattan(a, b) == Abs(a[1] - b[1]) + Abs(a[2] - b[2])

----------------------------------------------------------------------------
(* _compress_collinear *)

RECURSIVE cc_loop(_, _, _)
cc_loop(pts, i, out) ==
    IF i > Len(pts) - 1 THEN out
    ELSE LET p0 == out[Len(out)]
             p1 == pts[i]
             p2 == pts[i + 1]
         IN  IF (p0[1] = p1[1] /\ p1[1] = p2[1]) \/ (p0[2] = p1[2] /\ p1[2] = p2[2])
             THEN cc_loop(pts, i + 1, out)
             ELSE cc_loop(pts, i + 1, Append(out, p1))

\* As _compress_collinear, comparing a point with its successor only.
RECURSIVE cc_loop_pairwise(_, _, _)
cc_loop_pairwise(pts, i, out) ==
    IF i > Len(pts) - 1 THEN out
    ELSE IF pts[i][1] = pts[i + 1][1] \/ pts[i][2] = pts[i + 1][2]
         THEN cc_loop_pairwise(pts, i + 1, out)
         ELSE cc_loop_pairwise(pts, i + 1, Append(out, pts[i]))

compress_collinear_pairwise(pts) ==
    IF Len(pts) <= 2 THEN pts
    ELSE Append(cc_loop_pairwise(pts, 2, <<pts[1]>>), pts[Len(pts)])

compress_collinear(pts) ==
    IF Len(pts) <= 2 THEN pts
    ELSE Append(cc_loop(pts, 2, <<pts[1]>>), pts[Len(pts)])

----------------------------------------------------------------------------
(* The grid and the graph of _route_avoiding_tables *)

src_id == "s"
dst_id == "d"

src_rect == all_table_rects[src_id]
dst_rect == all_table_rects[dst_id]

start == anchor(src_rect, pick_sides(src_rect, dst_rect)[1])
goal == anchor(dst_rect, pick_sides(src_rect, dst_rect)[2])

obstacles ==
    {expand(all_table_rects[tid], pad) : tid \in DOMAIN all_table_rects \ {src_id, dst_id}}

xs ==
    {start[1], goal[1]}
    \cup UNION {{left(r) - margin, left(r), right(r), right(r) + margin} : r \in obstacles}
    \cup UNION {{left(all_table_rects[t]), right(all_table_rects[t])} : t \in DOMAIN all_table_rects}

ys ==
    {start[2], goal[2]}
    \cup UNION {{top(r) - margin, top(r), bottom(r), bottom(r) + margin} : r \in obstacles}
    \cup UNION {{top(all_table_rects[t]), bottom(all_table_rects[t])} : t \in DOMAIN all_table_rects}

blocked(x, y) ==
    \E r \in obstacles : left(r) < x /\ x < right(r) /\ top(r) < y /\ y < bottom(r)

node_set == {n \in xs \X ys : ~blocked(n[1], n[2])} \cup {start, goal}

\* The nearest node of the same column above/below and of the same row
\* left/right of n: the pairs zip(pts, pts[1:]) of the sorted by_x and by_y lists.
col_prev(n, ns) ==
    LET c == {y \in ys : y < n[2] /\ <<n[1], y>> \in ns}
    IN  IF c = {} THEN <<>> ELSE <<(<<n[1], CHOOSE y \in c : \A z \in c : z <= y>>)>>

col_next(n, ns) ==
    LET c == {y \in ys : y > n[2] /\ <<n[1], y>> \in ns}
    IN  IF c = {} THEN <<>> ELSE <<(<<n[1], CHOOSE y \in c : \A z \in c : z >= y>>)>>

row_prev(n, ns) ==
    LET c == {x \in xs : x < n[1] /\ <<x, n[2]>> \in ns}
    IN  IF c = {} THEN <<>> ELSE <<(<<CHOOSE x \in c : \A z \in c : z <= x, n[2]>>)>>

row_next(n, ns) ==
    LET c == {x \in xs : x > n[1] /\ <<x, n[2]>> \in ns}
    IN  IF c = {} THEN <<>> ELSE <<(<<CHOOSE x \in c : \A z \in c : z >= x, n[2]>>)>>

\* edges[n]: the column pass appends the upper then the lower neighbour, the
\* row pass then the left and the right one, each only over a clear segment.
build_edges(ns, obs) ==
    [n \in ns |->
        SelectSeq(col_prev(n, ns) \o col_next(n, ns) \o row_prev(n, ns) \o row_next(n, ns),
                  LAMBDA m : segment_clear(n, m, obs))]

----------------------------------------------------------------------------
(* _a_star *)

\* Python's order of the heap entries (priority, (x, y)).
entry_less(e, f) ==
    \/ e[1] < f[1]
    \/ e[1] = f[1] /\ e[2][1] < f[2][1]
    \/ e[1] = f[1] /\ e[2][1] = f[2][1] /\ e[2][2] < f[2][2]

\* A stable heap: the least priority, the earliest inserted of them.
heap_min_index_fifo(h) ==
    CHOOSE i \in DOMAIN h :
        /\ \A j \in DOMAIN h : h[i][1] <= h[j][1]
        /\ \A j \in DOMAIN h : h[j][1] = h[i][1] => i <= j

\* heappop takes the least entry.
heap_min_index(h) ==
    CHOOSE i \in DOMAIN h : \A j \in DOMAIN h : ~entry_less(h[j], h[i])

\* A pop that leaves the entry in the heap.
remove_at_kept(h, i) == h

\* The heap after heappop took entry i.
remove_at(h, i) == SubSeq(h, 1, i - 1) \o SubSeq(h, i + 1, Len(h))

\* One iteration of the loop over edges[current].
relax_one(current, nxt, st) ==
    LET tentative == st.g[current] + manhattan(current, nxt)
    IN  IF nxt \notin DOMAIN st.g \/ tentative < st.g[nxt]
        THEN [cf |-> (nxt :> current) @@ st.cf,
              g |-> (nxt :> tentative) @@ st.g,
              heap |-> IF nxt \notin st.open
                       THEN Append(st.heap, <<tentative + manhattan(nxt, goal), nxt>>)
                       ELSE st.heap,
              open |-> IF nxt \notin st.open THEN st.open \cup {nxt} ELSE st.open]
        ELSE st

\* As relax, stopping one neighbour short.
RECURSIVE relax_short(_, _, _, _)
relax_short(current, nbrs, i, st) ==
    IF i >= Len(nbrs) THEN st
    ELSE CHOOSE r \in {relax_short(current, nbrs, i + 1, s) :
                        s \in {relax_one(current, nbrs[i], st)}} : TRUE

\* The loop over edges[current], from its i-th neighbour on (s is the state
\* that the i-th iteration leaves).
RECURSIVE relax(_, _, _, _)
relax(current, nbrs, i, st) ==
    IF i > Len(nbrs) THEN st
    ELSE CHOOSE r \in {relax(current, nbrs, i + 1, s) :
                        s \in {relax_one(current, nbrs[i], st)}} : TRUE

\* As reconstruct, with the walk ending before the node that has no predecessor.
RECURSIVE reconstruct_headless(_, _)
reconstruct_headless(current, cf) ==
    IF current \in DOMAIN cf /\ cf[current] \in DOMAIN cf
    THEN Append(reconstruct_headless(cf[current], cf), current)
    ELSE <<current>>

\* path.reverse() of the walk along came_from.
RECURSIVE reconstruct(_, _)
reconstruct(current, cf) ==
    IF current \in DOMAIN cf
    THEN Append(reconstruct(cf[current], cf), current)
    ELSE <<current>>

NoPath == <<>>

----------------------------------------------------------------------------
(* Inputs *)

\* A rectangle given in whole units.
R(x, y, w, h) == Rect(2 * x, 2 * y, 2 * w, 2 * h)

\* The widths and heights of the small tables.
Sizes == {1, 2}

GridRects ==
    {R(x, y, w, h) : x \in 0..MaxCoord, y \in 0..MaxCoord, w \in Sizes, h \in Sizes}

SrcRects == {R(2, 1, 2, 1)}

\* all_table_rects of a diagram of two tables, and of three.
Tables2(s, d) == (src_id :> s) @@ (dst_id :> d)
Tables3(s, d, o) == (src_id :> s) @@ (dst_id :> d) @@ ("t" :> o)

\* Small diagrams, routed with pad = 0 and margin = 1.
GridInputs ==
    {[rects |-> Tables2(s, d), pad |-> 0, margin |-> 2] : s \in SrcRects, d \in GridRects}
    \cup {[rects |-> Tables3(s, d, o), pad |-> 0, margin |-> 2] :
            s \in SrcRects, d \in GridRects, o \in GridRects}

\* Two tables side by side in the same band, 60 apart.
ScenarioSrc == R(0, 0, 40, 20)
ScenarioDst == R(100, 0, 40, 20)

\* Third tables that span the x-range 40..100 between them and contain y = 10.
SpanningObstacles ==
    {R(40, 0, 60, 20), R(40, 5, 60, 10), R(30, -10, 80, 40), R(40, 10, 60, 20)}

\* Diagrams routed as _render_paths_block does, with the default pad and margin.
DefaultInputs ==
    {[rects |-> Tables2(ScenarioSrc, ScenarioDst),
      pad |-> 2 * DefaultPad, margin |-> 2 * DefaultMargin]}
    \cup {[rects |-> Tables3(ScenarioSrc, ScenarioDst, o),
            pad |-> 2 * DefaultPad, margin |-> 2 * DefaultMargin] : o \in SpanningObstacles}
    \cup {[rects |-> Tables3(ScenarioSrc, ScenarioDst, R(48, 0, 44, 20)),
            pad |-> 2 * DefaultPad, margin |-> 2 * DefaultMargin],
           [rects |-> Tables3(R(40, 40, 10, 10), R(0, 20, 10, 10), R(20, 20, 10, 20)),
            pad |-> 2 * DefaultPad, margin |-> 2 * DefaultMargin],
           [rects |-> Tables3(R(114, 69, 8, 6), R(59, 12, 54, 58), R(52, 53, 54, 3)),
            pad |-> 2 * DefaultPad, margin |-> 2 * DefaultMargin]}

Inputs == GridInputs \cup DefaultInputs

----------------------------------------------------------------------------
(* The routing of one relation *)

Init ==
    /\ \E inp \in Inputs :
        /\ all_table_rects = inp.rects
        /\ pad = inp.pad
        /\ margin = inp.margin
    /\ pc = "start"
    /\ sides = <<>>
    /\ edges = <<>>
    /\ open_heap = <<>>
    /\ came_from = <<>>
    /\ g_score = <<>>
    /\ in_open = {}
    /\ popped = <<>>
    /\ closed = {}
    /\ reopened = {}
    /\ path = NoPath
    /\ points = <<>>
    /\ result = <<>>
    /\ cc_pc = "idle"
    /\ cc_points = <<>>
    /\ cc_once = <<>>
    /\ cc_twice = <<>>

\* _route_avoiding_tables up to the call of _a_star, and _a_star up to its loop.
Setup ==
    /\ pc = "start"
    /\ pc' = "search"
    /\ sides' = pick_sides(src_rect, dst_rect)
    /\ \E ns \in {node_set} : \E obs \in {obstacles} : edges' = build_edges(ns, obs)
    /\ open_heap' = <<(<<manhattan(start, goal), start>>)>>
    /\ came_from' = <<>>
    /\ g_score' = (start :> 0)
    /\ in_open' = {start}
    /\ UNCHANGED <<all_table_rects, pad, margin, popped, closed, reopened, path, points,
                   result>>
    /\ UNCHANGED ccVars

\* One iteration of the loop that pops the goal: the path is rebuilt,
\* simplified and serialized.
AStarGoal ==
    /\ pc = "search"
    /\ open_heap # <<>>
    /\ \E i \in {heap_min_index(open_heap)} :
       \E current \in {open_heap[i][2]} :
           /\ current = goal
           /\ popped' = open_heap[i]
           /\ open_heap' = remove_at(open_heap, i)
           /\ in_open' = in_open \ {current}
           /\ closed' = closed \cup {current}
           /\ path' = reconstruct(current, came_from)
           /\ points' = compress_collinear(path')
           /\ result' = serialize(points')
    /\ pc' = "done"
    /\ UNCHANGED <<all_table_rects, pad, margin, sides, edges, came_from, g_score,
                   reopened>>
    /\ UNCHANGED ccVars

\* One iteration of the loop on any other node.
AStarExpand ==
    /\ pc = "search"
    /\ open_heap # <<>>
    /\ \E i \in {heap_min_index(open_heap)} :
       \E current \in {open_heap[i][2]} :
       \E st \in {relax(current, edges[current], 1,
                       [cf |-> came_from, g |-> g_score,
                        heap |-> remove_at(open_heap, i),
                        open |-> in_open \ {current}])} :
           /\ current # goal
           /\ popped' = open_heap[i]
           /\ closed' = closed \cup {current}
           /\ reopened' = reopened \cup ((st.open \ in_open) \cap closed')
           /\ came_from' = st.cf
           /\ g_score' = st.g
           /\ open_heap' = st.heap
           /\ in_open' = st.open
    /\ UNCHANGED <<all_table_rects, pad, margin, pc, sides, edges, path, points, result>>
    /\ UNCHANGED ccVars

\* The heap ran empty: _a_star returns None and the router falls back.
AStarFail ==
    /\ pc = "search"
    /\ open_heap = <<>>
    /\ pc' = "done"
    /\ path' = NoPath
    /\ points' = orthogonal_points(src_rect, dst_rect, margin)
    /\ result' = orthogonal_path(src_rect, dst_rect, margin)
    /\ UNCHANGED <<all_table_rects, pad, margin, sides, edges, open_heap, came_from,
                   g_score, in_open, popped, closed, reopened>>
    /\ UNCHANGED ccVars

Next == Setup \/ AStarGoal \/ AStarExpand \/ AStarFail

Spec == Init /\ [][Next]_vars

\* The loop of _a_star runs on until it returns: nothing suspends it.
FairSpec == Spec /\ WF_vars(Next)

----------------------------------------------------------------------------
(* The simplifier applied to a point sequence, and again to its output *)

Pts == (0..MaxPt) \X (0..MaxPt)

InitCC ==
    /\ \E n \in 2..MaxLen : cc_points \in [1..n -> Pts]
    /\ cc_pc = "input"
    /\ cc_once = <<>>
    /\ cc_twice = <<>>
    /\ all_table_rects = Tables2(ScenarioSrc, ScenarioDst)
    /\ pad = 2 * DefaultPad
    /\ margin = 2 * DefaultMargin
    /\ pc = "idle"
    /\ sides = <<>>
    /\ edges = <<>>
    /\ open_heap = <<>>
    /\ came_from = <<>>
    /\ g_score = <<>>
    /\ in_open = {}
    /\ popped = <<>>
    /\ closed = {}
    /\ reopened = {}
    /\ path = NoPath
    /\ points = <<>>
    /\ result = <<>>

CompressOnce ==
    /\ cc_pc = "input"
    /\ cc_once' = compress_collinear(cc_points)
    /\ cc_pc' = "once"
    /\ UNCHANGED <<cc_points, cc_twice>>
    /\ UNCHANGED routeVars

CompressTwice ==
    /\ cc_pc = "once"
    /\ cc_twice' = compress_collinear(cc_once)
    /\ cc_pc' = "twice"
    /\ UNCHANGED <<cc_points, cc_once>>
    /\ UNCHANGED routeVars

NextCC == CompressOnce \/ CompressTwice

SpecCC == InitCC /\ [][NextCC]_vars

----------------------------------------------------------------------------
(* Graph facts the properties are stated with *)

Range(f) == {f[i] : i \in DOMAIN f}

RECURSIVE reach(_, _)
reach(frontier, seen) ==
    IF frontier = {} THEN seen
    ELSE LET nxt == UNION {Range(edges[n]) : n \in frontier} \ seen
         IN  reach(nxt, seen \cup nxt)

\* The nodes joined to start by edges of the constructed graph.
Reachable == reach({start}, {start})

SetMin(S) == CHOOSE x \in S : \A y \in S : x <= y

RECURSIVE settle(_)
settle(d) ==
    LET d2 == [n \in DOMAIN d |->
                SetMin({d[n]} \cup {d[m] + manhattan(m, n) : m \in Range(edges[n])})]
    IN  IF d2 = d THEN d ELSE settle(d2)

\* The least total Manhattan length of a start-to-n path of the graph.
shortest_dist == settle([n \in Reachable |-> IF n = start THEN 0 ELSE 1000000])

RECURSIVE path_length(_)
path_length(p) ==
    IF Len(p) <= 1 THEN 0
    ELSE manhattan(p[1], p[2]) + path_length(Tail(p))

is_graph_path(p) ==
    /\ Len(p) >= 1
    /\ p[1] = start
    /\ p[Len(p)] = goal
    /\ \A i \in 1..(Len(p) - 1) : p[i + 1] \in Range(edges[p[i]])

\* Some point of the segment a-b lies strictly inside r (exact for an
\* axis-aligned segment, the bounding box of a diagonal one).
crosses(a, b, r) ==
    /\ Min(a[1], b[1]) < right(r)
    /\ Max(a[1], b[1]) > left(r)
    /\ Min(a[2], b[2]) < bottom(r)
    /\ Max(a[2], b[2]) > top(r)

segments_cross(pts) ==
    \E i \in 1..(Len(pts) - 1) : \E r \in obstacles : crosses(pts[i], pts[i + 1], r)

distinct_points(pts) == \A i, j \in DOMAIN pts : i # j => pts[i] # pts[j]

----------------------------------------------------------------------------
(* Properties *)

\* C1: a grid path (A* found a path, no fallback) has no segment with a point
\* strictly inside a padded obstacle.
GridPathAvoidsObstacles ==
    (pc = "done" /\ path # NoPath) => ~segments_cross(points)

\* C1 witness: a grid path with bends was returned where the direct elbow
\* route would have crossed an obstacle.
GridPathDetoursWitness ==
    /\ pc = "done"
    /\ path # NoPath
    /\ Len(points) >= 4
    /\ segments_cross(orthogonal_points(src_rect, dst_rect, margin))

\* C2: the router falls back exactly when the goal is not reachable from the
\* start in the constructed graph; the fallback result is exactly
\* _orthogonal_path, the other result is the serialized simplified path of
\* the graph that the search found.
FallbackIffUnreachable ==
    pc = "done" =>
        /\ (path = NoPath) <=> (goal \notin Reachable)
        /\ path = NoPath => result = orthogonal_path(src_rect, dst_rect, margin)
        /\ path # NoPath =>
            /\ is_graph_path(path)
            /\ result = serialize(compress_collinear(path))

\* C2 witness: the search expanded several nodes, ran out of them and the
\* router fell back.
FallbackAfterSearchWitness ==
    /\ pc = "done"
    /\ path = NoPath
    /\ Cardinality(closed) >= 3
    /\ goal \notin Reachable

\* C3: a path returned by _a_star has the least total Manhattan length of all
\* start-to-goal paths of the graph.
AStarPathIsShortest ==
    (pc = "done" /\ path # NoPath) => path_length(path) = shortest_dist[goal]

\* C4: every two consecutive points of the point list before serialization,
\* of the grid path and of the fallback alike, share exactly one coordinate.
ConsecutivePointsShareOneCoordinate ==
    pc = "done" =>
        \A i \in 1..(Len(points) - 1) :
            (points[i][1] = points[i + 1][1]) # (points[i][2] = points[i + 1][2])

\* C5: the first point of the result is the rounded anchor of the source
\* rectangle on its picked side, the last point that of the destination.
EndpointsAreAnchors ==
    pc = "done" =>
        LET a == anchor(src_rect, sides[1])
            b == anchor(dst_rect, sides[2])
            n == Len(result)
        IN  /\ n >= 1
            /\ <<result[1][2], result[1][3]>> = <<round_svg(a[1]), round_svg(a[2])>>
            /\ <<result[n][2], result[n][3]>> = <<round_svg(b[1]), round_svg(b[2])>>

\* C5 witness: a grid path that the simplifier shortened, between anchors
\* with a half-unit coordinate.
SimplifiedGridPathWitness ==
    /\ pc = "done"
    /\ path # NoPath
    /\ Len(points) < Len(path)
    /\ Len(points) >= 3
    /\ start[2] % 2 = 1

\* C6: with a third table spanning the x-range between the two scenario
\* tables in their band, the result has a vertical segment whose x lies
\* outside that table's horizontal extent.
SpanningObstacleIsDetoured ==
    (/\ pc = "done"
     /\ src_rect = ScenarioSrc
     /\ dst_rect = ScenarioDst
     /\ pad = 2 * DefaultPad
     /\ margin = 2 * DefaultMargin
     /\ "t" \in DOMAIN all_table_rects
     /\ all_table_rects["t"] \in SpanningObstacles)
    => \E i \in 1..(Len(result) - 1) :
          /\ result[i][2] = result[i + 1][2]
          /\ result[i][3] # result[i + 1][3]
          /\ \/ 2 * result[i][2] < left(all_table_rects["t"])
             \/ 2 * result[i][2] > right(all_table_rects["t"])

\* C7: the sides picked follow the centre displacement (dx, dy): right/left
\* or left/right when |dx| >= |dy| (by the sign of dx), bottom/top or
\* top/bottom otherwise (by the sign of dy); always opposite sides of one axis.
SidesFollowDisplacement ==
    pc \in {"search", "done"} =>
        LET dx == (dst_rect.x + dst_rect.w \div 2) - (src_rect.x + src_rect.w \div 2)
            dy == (dst_rect.y + dst_rect.h \div 2) - (src_rect.y + src_rect.h \div 2)
        IN  /\ (Abs(dx) >= Abs(dy) /\ dx >= 0) => sides = <<"right", "left">>
            /\ (Abs(dx) >= Abs(dy) /\ dx < 0) => sides = <<"left", "right">>
            /\ (Abs(dx) < Abs(dy) /\ dy >= 0) => sides = <<"bottom", "top">>
            /\ (Abs(dx) < Abs(dy) /\ dy < 0) => sides = <<"top", "bottom">>
            /\ sides \in {<<"right", "left">>, <<"left", "right">>,
                          <<"bottom", "top">>, <<"top", "bottom">>}

\* C7 witness: sides were picked for a tie |dx| = |dy| with a displacement.
TieSidesWitness ==
    /\ pc = "search"
    /\ Abs(cx(dst_rect) - cx(src_rect)) = Abs(cy(dst_rect) - cy(src_rect))
    /\ cy(dst_rect) # cy(src_rect)

\* C8 as stated: a second pass of the simplifier changes nothing, for every
\* point sequence.
CompressIdempotent ==
    cc_pc = "twice" => cc_twice = cc_once

\* C8 amended: a second pass changes nothing when the points of the sequence
\* are pairwise distinct.
CompressIdempotentOnDistinct ==
    (cc_pc = "twice" /\ distinct_points(cc_points)) => cc_twice = cc_once

\* C8 witness: a sequence of distinct points that the first pass shortened
\* to one with an interior point left.
CompressDistinctWitness ==
    /\ cc_pc = "twice"
    /\ distinct_points(cc_points)
    /\ Len(cc_once) < Len(cc_points)
    /\ Len(cc_once) >= 3

\* C9: the search loop ends: the goal is popped or the heap runs empty.
SearchTerminates == <>(pc = "done")

\* C9 witness: a search that pushed an already popped node again has ended.
ReopenedSearchEndedWitness ==
    /\ pc = "done"
    /\ reopened # {}

\* C10 as stated: of the heap entries of the popped priority the popped one
\* was inserted first.
PopsEarliestInserted ==
    [][(pc = "search" /\ open_heap # <<>>) =>
        \A j \in DOMAIN open_heap :
            open_heap[j][1] = popped'[1] =>
                \E k \in 1..j : open_heap[k] = popped']_vars

\* C10 amended: of the heap entries of the popped priority the popped one
\* has the least node (x, y), first by x and then by y.
PopsLeastNode ==
    [][(pc = "search" /\ open_heap # <<>>) =>
        \A j \in DOMAIN open_heap :
            open_heap[j][1] = popped'[1] =>
                \/ popped'[2][1] < open_heap[j][2][1]
                \/ /\ popped'[2][1] = open_heap[j][2][1]
                   /\ popped'[2][2] <= open_heap[j][2][2]]_vars

\* C10 witness: after a pop the heap holds two entries of its least priority,
\* the later inserted one with the lesser node.
TieAgainstInsertionOrderWitness ==
    /\ pc = "search"
    /\ popped # <<>>
    /\ \E i, j \in DOMAIN open_heap :
          /\ i < j
          /\ open_heap[i][1] = open_heap[j][1]
          /\ entry_less(open_heap[j], open_heap[i])
          /\ \A k \in DOMAIN open_heap : open_heap[i][1] <= open_heap[k][1]

=============================================================================
